---- MODULE Spec2Model ----
(***************************************************************************)
(* A model of gridaurora: the Ap / f10.7 index pipeline of                 *)
(* gridaurora/__init__.py (todate, selectApfile, getApF107, readpast,      *)
(* moving_average, nearest-date selection) and the transmittance composer  *)
(* of gridaurora/filterload.py (getSystemT).                               *)
(*                                                                         *)
(* The pure functions are operators; each is exercised by a specification  *)
(* whose Init draws the arguments (args) and whose action stores the       *)
(* returned value (ret).  getApF107 with its on-disk cache is a state      *)
(* machine over the cache directory, once with calls one after the other   *)
(* (SpecCache) and once with two invocations interleaved (SpecRace).       *)
(***************************************************************************)
EXTENDS Integers, Sequences, FiniteSets, TLC

VARIABLES
    pc,      \* position of the call under study
    args,    \* arguments of the call
    ret,     \* value(s) returned so far
    tnow,    \* date.today(), in days
    files,   \* the cache directory: file name -> "absent" or the file's table
    last,    \* what the latest getApF107 call did
    ndown,   \* per file name: downloads made by calls with forcedownload=False
    disk,    \* SpecRace: the chunks of the one cache file the invocations share
    proc     \* SpecRace: each invocation's position, write offset and outcome

vars == <<pc, args, ret, tnow, files, last, ndown, disk, proc>>
funvars == <<pc, args, ret>>
cachevars == <<tnow, files, last, ndown>>
racevars == <<disk, proc>>

None == [kind |-> "None"]

\* ------------------------------------------------------------------ bounds
MaxDay == 2        \* days used for todate / nearest-date inputs: 0..MaxDay
MaxTod == 1        \* time of day, in ticks: 0..MaxTod
MaxItems == 2      \* longest collection passed to todate
MaxToday == 2      \* today ranges over 0..MaxToday
MaxAhead == 3      \* requested dates reach up to today + FcastDays + MaxAhead

\* ------------------------------------------------------------ python values
TicksPerDay == MaxTod + 1

Date(d) == [kind |-> "date", day |-> d]
Datetime(d, t) == [kind |-> "datetime", day |-> d, tod |-> t]
\* an ISO-like string: <<d>> is "YYYY-MM-DD", <<d, t>> is "YYYY-MM-DDTHH:MM"
Str(text) == [kind |-> "str", text |-> text]
\* numpy.datetime64: a count of units since the epoch
Datetime64(u, n) == [kind |-> "datetime64", unit |-> u, val |-> n]
PyInt(n) == [kind |-> "int", val |-> n]
Coll(k, items) == [kind |-> k, items |-> items]
TypeError == [kind |-> "TypeError"]
ValueError == [kind |-> "ValueError"]

\* dateutil.parser.parse: a date-only string gives midnight
parse(s) ==
    IF Len(s.text) = 1 THEN Datetime(s.text[1], 0)
    ELSE Datetime(s.text[1], s.text[2])

\* numpy: datetime64.astype(object). Day (and coarser) units give a date,
\* second..microsecond units a datetime, finer units a plain integer count.
astype_object(x) ==
    CASE x.unit = "D" -> Date(x.val)
      [] x.unit = "s" -> Datetime(x.val \div TicksPerDay, x.val % TicksPerDay)
      [] x.unit = "ns" -> PyInt(x.val)

RECURSIVE todate(_)
todate(time) ==
    CASE time.kind = "str" -> todate(parse(time))
      [] time.kind = "datetime" -> Date(time.day)
      [] time.kind = "datetime64" ->
            LET d == astype_object(time)
            IN  IF d.kind = "datetime" THEN Date(d.day) ELSE d
      [] time.kind = "date" -> time
      [] time.kind \in {"tuple", "list", "ndarray"} ->
            LET m == [i \in DOMAIN time.items |-> todate(time.items[i])]
            IN  IF \E i \in DOMAIN m : m[i] = TypeError THEN TypeError
                ELSE Coll("list", m)
      [] OTHER -> TypeError

\* ------------------------------------------------------- todate's inputs
Days == 0..MaxDay
Tods == 0..MaxTod
Strings == {Str(<<d>>) : d \in Days} \cup {Str(<<d, t>>) : d \in Days, t \in Tods}
Dates == {Date(d) : d \in Days}
Datetimes == {Datetime(d, t) : d \in Days, t \in Tods}
Datetime64s ==
    {Datetime64("D", d) : d \in Days}
    \cup {Datetime64("s", d * TicksPerDay + t) : d \in Days, t \in Tods}
    \cup {Datetime64("ns", (d * TicksPerDay + t) * 1000) : d \in Days, t \in Tods}
Scalars == Strings \cup Dates \cup Datetimes \cup Datetime64s

SeqsUpTo(S, n) == UNION {[1..k -> S] : k \in 1..n}
\* homogeneous collections of date-likes
Collections ==
    {Coll(k, s) : k \in {"tuple", "list", "ndarray"},
                  s \in UNION {SeqsUpTo(S, MaxItems) :
                                 S \in {Strings, Dates, Datetimes, Datetime64s}}}
DateLike == Scalars \cup Collections

\* ---------------------------------------------------------------- idle parts
CacheIdle == tnow = 0 /\ files = <<>> /\ last = None /\ ndown = <<>>
RaceIdle == disk = <<>> /\ proc = <<>>

\* --------------------------------------------------- SpecDate: todate twice
InitDate ==
    /\ pc = "call" /\ args \in DateLike /\ ret = <<>>
    /\ CacheIdle /\ RaceIdle

Todate ==
    /\ pc = "call"
    /\ ret' = <<todate(args)>>
    /\ pc' = "once"
    /\ UNCHANGED <<args, cachevars, racevars>>

\* the value todate returned is handed to todate again
TodateAgain ==
    /\ pc = "once"
    /\ ret[1] # TypeError
    /\ ret' = Append(ret, todate(ret[1]))
    /\ pc' = "twice"
    /\ UNCHANGED <<args, cachevars, racevars>>

NextDate == Todate \/ TodateAgain
SpecDate == InitDate /\ [][NextDate]_vars

\* C5: todate is idempotent on every valid date-like input: the second
\* application succeeds and returns what the first returned, a date or a
\* list of dates.
IsDates(v) ==
    \/ v.kind = "date"
    \/ v.kind = "list" /\ \A i \in DOMAIN v.items : v.items[i].kind = "date"
C5_TodateIdempotent ==
    /\ pc \in {"once", "twice"} => IsDates(ret[1])
    /\ pc = "twice" => ret[2] # TypeError /\ ret[2] = ret[1]

\* the same, for inputs that are not datetime64 of a unit finer than microseconds
HasFineUnit(v) ==
    \/ v.kind = "datetime64" /\ v.unit = "ns"
    \/ v.kind \in {"tuple", "list", "ndarray"}
       /\ \E i \in DOMAIN v.items :
            v.items[i].kind = "datetime64" /\ v.items[i].unit = "ns"
C5_IdempotentCoarse ==
    ~HasFineUnit(args) => C5_TodateIdempotent
C5_Witness ==
    pc = "twice" /\ args.kind = "tuple" /\ Len(args.items) = 2
    /\ args.items[1].kind = "datetime64" /\ ret[2] = ret[1]

\* ------------------------------------------------------- URLs and file names
\* A URL or path is the sequence of its '/'-separated segments, and a segment
\* the sequence of its '.'-separated parts.
URLrecent ==
    << <<"ftp:">>, <<>>, <<"ftp", "swpc", "noaa", "gov">>, <<"pub">>,
       <<"weekly">>, <<"RecentIndices", "txt">> >>
URL45dayfcast ==
    << <<"http:">>, <<>>, <<"services", "swpc", "noaa", "gov">>, <<"text">>,
       <<"45-day-ap-forecast", "txt">> >>
URL20yearfcast ==
    << <<"https:">>, <<>>, <<"sail", "msfc", "nasa", "gov">>,
       <<"solar_report_archives">>, <<"May2016Rpt", "pdf">> >>

\* str.split('/')[-1]
LastSegment(url) == url[Len(url)]
\* Path(__file__).parent / 'data'
DataDir == << <<"/">>, <<"gridaurora">>, <<"data">> >>
\* pathlib's '/': an absolute right operand replaces the left one
PathJoin(p, q) == IF q # <<>> /\ q[1] = <<"/">> THEN q ELSE p \o q
\* Path.name
PathName(p) == p[Len(p)]
\* Path.with_suffix: the last '.'-part of the name is replaced
with_suffix(p, suffix) ==
    LET n == PathName(p)
        stem == IF Len(n) > 1 THEN SubSeq(n, 1, Len(n) - 1) ELSE n
    IN  SubSeq(p, 1, Len(p) - 1) \o <<stem \o <<suffix>>>>

FcastDays == 45

\* selectApfile with a 20-year branch that keeps the URL's own file name
selectApfile_keepsuffix(time, today) ==
    LET t == IF time.kind = "datetime" THEN Date(time.day) ELSE time
    IN  IF t.kind # "date" THEN TypeError
        ELSE IF t.day < today
        THEN [fn |-> PathJoin(DataDir, <<LastSegment(URLrecent)>>), url |-> URLrecent]
        ELSE IF today <= t.day /\ t.day < today + FcastDays
        THEN [fn |-> PathJoin(DataDir, <<LastSegment(URL45dayfcast)>>),
              url |-> URL45dayfcast]
        ELSE [fn |-> PathJoin(DataDir, <<LastSegment(URL20yearfcast)>>),
              url |-> URL20yearfcast]

\* selectApfile whose first comparison is <= instead of <
selectApfile_le(time, today) ==
    LET t == IF time.kind = "datetime" THEN Date(time.day) ELSE time
    IN  IF t.kind # "date" THEN TypeError
        ELSE IF t.day <= today
        THEN [fn |-> PathJoin(DataDir, <<LastSegment(URLrecent)>>), url |-> URLrecent]
        ELSE IF today <= t.day /\ t.day < today + FcastDays
        THEN [fn |-> PathJoin(DataDir, <<LastSegment(URL45dayfcast)>>),
              url |-> URL45dayfcast]
        ELSE LET rawfn == PathJoin(DataDir, <<LastSegment(URL20yearfcast)>>)
             IN  [fn |-> PathJoin(DataDir, with_suffix(rawfn, "txt")),
                  url |-> URL20yearfcast]

\* selectApfile(time), with date.today() passed as `today`. A datetime is
\* replaced by its date; comparing anything but a date with today raises.
selectApfile(time, today) ==
    LET t == IF time.kind = "datetime" THEN Date(time.day) ELSE time
    IN  IF t.kind # "date" THEN TypeError
        ELSE IF t.day < today
        THEN [fn |-> PathJoin(DataDir, <<LastSegment(URLrecent)>>), url |-> URLrecent]
        ELSE IF today <= t.day /\ t.day < today + FcastDays
        THEN [fn |-> PathJoin(DataDir, <<LastSegment(URL45dayfcast)>>),
              url |-> URL45dayfcast]
        ELSE LET rawfn == PathJoin(DataDir, <<LastSegment(URL20yearfcast)>>)
             IN  [fn |-> PathJoin(DataDir, with_suffix(rawfn, "txt")),
                  url |-> URL20yearfcast]

\* ------------------------------------------- SpecSelect: selectApfile alone
Todays == 0..MaxToday
ReqDays == 0..(MaxToday + FcastDays + MaxAhead)
ReqTimes == {Date(d) : d \in ReqDays} \cup {Datetime(d, t) : d \in ReqDays, t \in Tods}

InitSelect ==
    /\ pc = "call" /\ ret = <<>>
    /\ args \in [time : ReqTimes, today : Todays]
    /\ CacheIdle /\ RaceIdle

SelectApfile ==
    /\ pc = "call"
    /\ ret' = <<selectApfile(args.time, args.today)>>
    /\ pc' = "done"
    /\ UNCHANGED <<args, cachevars, racevars>>

NextSelect == SelectApfile
SpecSelect == InitSelect /\ [][NextSelect]_vars

RecentFn == PathJoin(DataDir, << <<"RecentIndices", "txt">> >>)
Fcast45Fn == PathJoin(DataDir, << <<"45-day-ap-forecast", "txt">> >>)
Fcast20Fn == PathJoin(DataDir, << <<"May2016Rpt", "txt">> >>)

\* C1: selectApfile partitions the dates relative to today: before today the
\* recent-indices source, in [today, today+45) the 45-day forecast, from
\* today+45 on the 20-year forecast; a datetime counts by its date.
C1_SelectPartition ==
    pc = "done" =>
        LET d == args.time.day
            r == ret[1]
        IN  /\ r # TypeError
            /\ (d < args.today) <=> (r.url = URLrecent /\ r.fn = RecentFn)
            /\ (args.today <= d /\ d < args.today + 45)
                 <=> (r.url = URL45dayfcast /\ r.fn = Fcast45Fn)
            /\ (d >= args.today + 45) <=> (r.url = URL20yearfcast /\ r.fn = Fcast20Fn)
C1_Witness ==
    pc = "done" /\ args.time.kind = "datetime" /\ args.time.tod > 0
    /\ args.time.day = args.today + 45 /\ ret[1].url = URL20yearfcast

\* ------------------------------------------------------------ moving_average
MaxLen == 4        \* longest series smoothed
MaxVal == 1        \* samples range over -1..MaxVal (-1 is NOAA's missing value)
MaxStep == 2       \* days between the first two samples: 1..MaxStep
MaxSmooth == 4     \* smoothdays ranges over -1..MaxSmooth

RECURSIVE SumSeq(_)
SumSeq(s) == IF s = <<>> THEN 0 ELSE s[1] + SumSeq(Tail(s))

Max2(a, b) == IF a >= b THEN a ELSE b
Min2(a, b) == IF a <= b THEN a ELSE b

\* numpy.rint(x / y) for y > 0: round to nearest, ties to even
rint_div(x, y) ==
    LET q == x \div y
        r == x % y
    IN  IF 2 * r < y THEN q
        ELSE IF 2 * r > y THEN q + 1
        ELSE IF q % 2 = 0 THEN q ELSE q + 1

\* numpy.convolve(a, v, mode='full') for integer sequences (0-based k below):
\* full[k] = sum over j of a[j] * v[k - j]
convolve_full(a, v) ==
    [k \in 1..(Len(a) + Len(v) - 1) |->
        SumSeq([j \in 1..Len(a) |->
            IF k - j + 1 \in 1..Len(v) THEN a[j] * v[k - j + 1] ELSE 0])]

\* mode='same' taken from the start of the full convolution (not centered)
convolve_same_uncentered(a, v) ==
    SubSeq(convolve_full(a, v), 1, Max2(Len(a), Len(v)))

\* numpy.convolve(a, v, mode='same'): the max(N, M) central values of the full
\* convolution, starting (min(N, M) - 1) \div 2 values in
convolve_same(a, v) ==
    LET full == convolve_full(a, v)
        off == (Min2(Len(a), Len(v)) - 1) \div 2
    IN  SubSeq(full, off + 1, off + Max2(Len(a), Len(v)))

\* moving_average without the guard on periods > dat.size
moving_average_noguard(dat, periods) ==
    IF periods < 0 THEN ValueError
    ELSE IF periods = 0 \/ Len(dat) = 0 THEN ValueError
    ELSE LET c == convolve_same(dat, [k \in 1..periods |-> 1])
         IN  [kind |-> "array",
              vals |-> [i \in DOMAIN c |-> [num |-> c[i], den |-> periods]]]

\* moving_average(dat, periods): a sample of the result is the rational
\* num / den. The kernel numpy.ones(periods) / periods has the weights
\* 1 / periods; numpy.ones raises ValueError for a negative length and
\* numpy.convolve raises ValueError for an empty operand.
moving_average(dat, periods) ==
    IF periods > Len(dat) THEN ValueError
    ELSE IF periods < 0 THEN ValueError
    ELSE IF periods = 0 \/ Len(dat) = 0 THEN ValueError
    ELSE LET c == convolve_same(dat, [k \in 1..periods |-> 1])
         IN  [kind |-> "array",
              vals |-> [i \in DOMAIN c |-> [num |-> c[i], den |-> periods]]]

\* ------------------------------- SpecAvg: the smoothing step of getApF107
Series == UNION {[1..n -> (-1)..MaxVal] : n \in 1..MaxLen}

InitAvg ==
    /\ pc = "call" /\ ret = <<>>
    /\ args \in [dat : Series, step : 1..MaxStep, smoothdays : (-1)..MaxSmooth]
    /\ CacheIdle /\ RaceIdle

\* periods = np.rint(timedelta(days=smoothdays) / (time[1] - time[0]))
Periods == rint_div(args.smoothdays, args.step)

MovingAverage ==
    /\ pc = "call"
    /\ ret' = <<moving_average(args.dat, Periods)>>
    /\ pc' = "done"
    /\ UNCHANGED <<args, cachevars, racevars>>

NextAvg == MovingAverage
SpecAvg == InitAvg /\ [][NextAvg]_vars

\* C4 as stated: for every periods <= N (0 and negative included) the result
\* is a series of length N, and ValueError is raised exactly when periods > N.
C4_LengthAllPeriods ==
    pc = "done" =>
        LET N == Len(args.dat)
        IN  /\ Periods <= N => ret[1] # ValueError /\ Len(ret[1].vals) = N
            /\ ret[1] = ValueError <=> Periods > N

\* C4 amended: for 1 <= periods <= N the result is a series of length N, and
\* ValueError is raised exactly when periods > N or periods <= 0.
C4_LengthPositivePeriods ==
    pc = "done" =>
        LET N == Len(args.dat)
        IN  /\ (1 <= Periods /\ Periods <= N)
                 => ret[1] # ValueError /\ Len(ret[1].vals) = N
            /\ ret[1] = ValueError <=> (Periods > N \/ Periods <= 0)
C4_Witness ==
    pc = "done" /\ Periods = 0 /\ ret[1] = ValueError /\ Len(args.dat) = 3

\* the samples of dat inside the window of `periods` samples around position i
Window(i, periods) == {j \in Int : i - periods \div 2 <= j /\ j <= i - periods \div 2 + periods - 1}
InRange(i) == {j \in DOMAIN args.dat : j \in Window(i, Periods)}
RECURSIVE SumOver(_, _)
SumOver(f, S) ==
    IF S = {} THEN 0
    ELSE LET x == CHOOSE y \in S : TRUE IN f[x] + SumOver(f, S \ {x})

\* C9 as stated: at every position the smoothed value is the mean of the
\* samples inside the window, the sum of the in-range samples divided by their
\* number, also at the edges.
C9_PartialWindowMean ==
    (pc = "done" /\ ret[1] # ValueError) =>
        \A i \in DOMAIN args.dat :
            ret[1].vals[i].num * Cardinality(InRange(i))
                = SumOver(args.dat, InRange(i)) * ret[1].vals[i].den

\* C9 amended: at every position the smoothed value is the sum of the in-range
\* samples of the window divided by periods (samples outside the series count
\* as zero); it is the mean of the window wherever the whole window lies inside
\* the series, and there a constant series keeps its value.
IsConstant(s) == \A i, j \in DOMAIN s : s[i] = s[j]
C9_ZeroPaddedMean ==
    (pc = "done" /\ ret[1] # ValueError) =>
        \A i \in DOMAIN args.dat :
            /\ ret[1].vals[i].num * Periods
                 = SumOver(args.dat, InRange(i)) * ret[1].vals[i].den
            /\ (Cardinality(InRange(i)) = Periods /\ IsConstant(args.dat))
                 => ret[1].vals[i].num = args.dat[i] * ret[1].vals[i].den
C9_Witness ==
    /\ pc = "done" /\ ret[1] # ValueError /\ Periods = 3 /\ Len(args.dat) = 4
    /\ IsConstant(args.dat) /\ args.dat[1] = 1
    /\ ret[1].vals[1] = [num |-> 2, den |-> 3]
    /\ ret[1].vals[2] = [num |-> 3, den |-> 3]

\* ------------------------------------------------- nearest-date selection
MaxTableDay == 4   \* row dates and requested dates range over 0..MaxTableDay
MaxRows == 3       \* most rows of a parsed table

Abs(x) == IF x < 0 THEN -x ELSE x

\* A parsed table (xarray.Dataset over 'time') is the sequence of its rows.
Row(t, ap, f) == [time |-> t, Ap |-> ap, f107 |-> f]

\* dat.sel(time=dt, method='pad'): the last row at or before dt
sel_pad(dat, dt) ==
    LET before == {i \in DOMAIN dat : dat[i].time <= dt}
    IN  IF before = {} THEN dat[1]
        ELSE dat[CHOOSE i \in before : \A j \in before : j <= i]

\* dat.sel(time=dt, method='nearest') over an increasing time index, as pandas
\* resolves it: the pad and backfill candidates are compared by distance, the
\* earlier one is taken only when strictly nearer or when there is no later
\* one; a missing candidate is looked up at position -1, the last row.
sel_nearest(dat, dt) ==
    LET n == Len(dat)
        before == {i \in DOMAIN dat : dat[i].time <= dt}
        after == {i \in DOMAIN dat : dat[i].time >= dt}
        left == IF before = {} THEN 0
                ELSE CHOOSE i \in before : \A j \in before : j <= i
        right == IF after = {} THEN 0
                 ELSE CHOOSE i \in after : \A j \in after : i <= j
        at(i) == IF i = 0 THEN dat[n].time ELSE dat[i].time
        left_distance == Abs(dt - at(left))
        right_distance == Abs(dt - at(right))
    IN  IF left_distance < right_distance \/ right = 0
        THEN dat[IF left = 0 THEN n ELSE left]
        ELSE dat[right]

\* ------------------------------------ SpecNearest: the selection step alone
\* tables with strictly increasing dates; f107 names the row, Ap is free
DaySeqs ==
    {s \in UNION {[1..k -> 0..MaxTableDay] : k \in 1..MaxRows} :
        \A i \in 1..(Len(s) - 1) : s[i] < s[i + 1]}
Tables ==
    UNION {{[i \in DOMAIN s |-> Row(s[i], ap[i], 100 + s[i])] :
              ap \in [DOMAIN s -> (-1)..MaxVal]} : s \in DaySeqs}

InitNearest ==
    /\ pc = "call" /\ ret = <<>>
    /\ args \in [dat : Tables, dt : 0..MaxTableDay]
    /\ CacheIdle /\ RaceIdle

SelNearest ==
    /\ pc = "call"
    /\ ret' = <<sel_nearest(args.dat, args.dt)>>
    /\ pc' = "done"
    /\ UNCHANGED <<args, cachevars, racevars>>

NextNearest == SelNearest
SpecNearest == InitNearest /\ [][NextNearest]_vars

\* C6: the values returned for a date are those of an existing row of the
\* table, the row whose date is at the smallest absolute distance from the
\* requested date, also before the first and after the last row.
C6_NearestRow ==
    pc = "done" =>
        /\ \E i \in DOMAIN args.dat : args.dat[i] = ret[1]
        /\ \A i \in DOMAIN args.dat :
              Abs(ret[1].time - args.dt) <= Abs(args.dat[i].time - args.dt)
C6_Witness ==
    /\ pc = "done" /\ Len(args.dat) = 3
    /\ args.dat[1].time = 0 /\ args.dat[2].time = 1 /\ args.dat[3].time = 4
    /\ args.dt = 3 /\ ret[1] = args.dat[3]

\* ------------------------------------------------------------------ readpast
MaxLines == 3      \* most lines of a recent-indices file
MaxMonth == 2      \* months of the rows: 1..MaxMonth
MaxCell == 1       \* a cell of column c holds 10 * c + x, x in 0..MaxCell

\* A text file is the sequence of its lines, a line the sequence of its
\* whitespace-separated tokens: a number, "nan", or a token opening with one of
\* the comment characters.
Num(v) == [k |-> "num", v |-> v]
NaN == [k |-> "nan"]
Hash == [k |-> "#"]
Colon == [k |-> ":"]
IndexError == [kind |-> "IndexError"]

RECURSIVE TakeWhile(_, _)
TakeWhile(line, stop) ==
    IF line = <<>> \/ line[1].k \in stop THEN <<>>
    ELSE <<line[1]>> \o TakeWhile(Tail(line), stop)

\* numpy.loadtxt(fn, comments=..., usecols=...): every line is cut at the first
\* comment character, lines left empty are dropped, the wanted columns
\* (0-based) are kept. A file with fewer than two rows does not load as a
\* 2-D array, on which readpast's dat[:, :2] raises IndexError.
loadtxt(file, comments, usecols) ==
    LET cut == [i \in DOMAIN file |-> TakeWhile(file[i], comments)]
        kept == SelectSeq(cut, LAMBDA l : l # <<>>)
    IN  IF \E i \in DOMAIN kept : \E c \in DOMAIN usecols : usecols[c] + 1 > Len(kept[i])
        THEN IndexError
        ELSE IF Len(kept) < 2 THEN IndexError
        ELSE [i \in DOMAIN kept |-> [c \in DOMAIN usecols |-> kept[i][usecols[c] + 1]]]

YMD(y, m, d) == [kind |-> "date", year |-> y, month |-> m, dom |-> d]
\* Dataset.fillna(-1)
fillna(cell, v) == IF cell.k = "nan" THEN v ELSE cell.v

\* readpast taking Ap from the last loaded column (file column 10)
readpast_lastcol(file) ==
    LET dat == loadtxt(file, {"#", ":"}, <<0, 1, 7, 8, 9, 10>>)
    IN  IF dat = IndexError THEN IndexError
        ELSE [i \in DOMAIN dat |->
                [time |-> YMD(dat[i][1].v, dat[i][2].v, 1),
                 f107 |-> fillna(dat[i][3], -1),
                 Ap |-> fillna(dat[i][6], -1)]]

\* readpast(fn): dat[:, 2] is f107 and dat[:, 4] is Ap, 0-based among the
\* loaded columns (0, 1, 7, 8, 9, 10)
readpast(file) ==
    LET dat == loadtxt(file, {"#", ":"}, <<0, 1, 7, 8, 9, 10>>)
    IN  IF dat = IndexError THEN IndexError
        ELSE [i \in DOMAIN dat |->
                [time |-> YMD(dat[i][1].v, dat[i][2].v, 1),
                 f107 |-> fillna(dat[i][3], -1),
                 Ap |-> fillna(dat[i][5], -1)]]

\* ------------------------------------------------ SpecPast: readpast alone
\* a row of RecentIndices.txt: year, month and nine index columns
DataRow(m, x) == [c \in 1..11 |->
    IF c = 1 THEN Num(2016) ELSE IF c = 2 THEN Num(m) ELSE Num(10 * (c - 1) + x)]
DataRows == {DataRow(m, x) : m \in 1..MaxMonth, x \in 0..MaxCell}
PastLines ==
    DataRows
    \cup {[r EXCEPT ![8] = NaN, ![11] = NaN] : r \in {DataRow(1, 0)}}
    \cup {[r EXCEPT ![10] = NaN] : r \in {DataRow(MaxMonth, 0)}}
    \cup {DataRow(1, MaxCell) \o <<Hash, Num(0)>>}
    \cup {<<Hash, Num(7)>>, <<Colon, Num(7), Num(10)>>}
PastFiles == UNION {[1..n -> PastLines] : n \in 1..MaxLines}

InitPast ==
    /\ pc = "call" /\ ret = <<>>
    /\ args \in PastFiles
    /\ CacheIdle /\ RaceIdle

ReadPast ==
    /\ pc = "call"
    /\ ret' = <<readpast(args)>>
    /\ pc' = "done"
    /\ UNCHANGED <<args, cachevars, racevars>>

NextPast == ReadPast
SpecPast == InitPast /\ [][NextPast]_vars

\* the lines of the file that do not start with a comment character
IsDataLine(l) == l[1].k \notin {"#", ":"}
DataLines == SelectSeq(args, IsDataLine)
CellValue(cell) == IF cell.k = "nan" THEN -1 ELSE cell.v
\* the table has one row per data line, dated year-month-01 from columns 0 and
\* 1, with f107 from column 7 and Ap from column `apcol` (0-based)
RowsFrom(apcol) ==
    /\ Len(ret[1]) = Len(DataLines)
    /\ \A i \in DOMAIN DataLines :
          /\ ret[1][i].time = YMD(DataLines[i][1].v, DataLines[i][2].v, 1)
          /\ ret[1][i].f107 = CellValue(DataLines[i][7 + 1])
          /\ ret[1][i].Ap = CellValue(DataLines[i][apcol + 1])

\* C7 as stated: readpast takes f107 from column 7 and Ap from column 10.
C7_ApFromColumn10 ==
    (pc = "done" /\ ret[1] # IndexError) => RowsFrom(10)

\* C7 amended: readpast takes f107 from column 7 and Ap from column 9 (column
\* 10 is loaded and not used); lines starting with '#' or ':' are skipped and
\* the row's date is year-month-01.
C7_ApFromColumn9 ==
    (pc = "done" /\ ret[1] # IndexError) => RowsFrom(9)
C7_Witness ==
    /\ pc = "done" /\ ret[1] # IndexError /\ Len(args) = 3 /\ Len(ret[1]) = 2
    /\ args[1] = <<Hash, Num(7)>>
    /\ ret[1][1].Ap = 90 /\ ret[1][2].Ap = 91 /\ ret[1][2].f107 = 71

\* ---------------------------------------------------------------- getSystemT
NNodes == 2        \* tabulated wavelengths of every curve: 1..NNodes
MaxExp == 1        \* a positive transmittance sample is 2^-e, e in 0..MaxExp

\* A transmittance is exactly zero, a power of two 2^-e, or not-a-number; a
\* log-domain value is minus infinity, plus infinity, a finite number v
\* (base-2 logarithm) or not-a-number.
Zero == [k |-> "zero"]
Pow(e) == [k |-> "pow", e |-> e]
LinNaN == [k |-> "nan"]
NegInf == [k |-> "ninf"]
PosInf == [k |-> "pinf"]
Fin(v) == [k |-> "fin", v |-> v]
LogNaN == [k |-> "lognan"]

\* numpy.spacing(1) = 2^-52
SpacingExp == 52
spacing1 == Pow(SpacingExp)

log(x) == CASE x.k = "zero" -> NegInf
            [] x.k = "pow" -> Fin(-x.e)
            [] OTHER -> LogNaN
exp(l) == CASE l.k = "ninf" -> Zero
            [] l.k = "fin" -> Pow(-l.v)
            [] OTHER -> LinNaN

\* IEEE arithmetic on log-domain values
ExtSub(a, b) ==
    CASE a.k = "lognan" \/ b.k = "lognan" -> LogNaN
      [] a.k = "fin" /\ b.k = "fin" -> Fin(a.v - b.v)
      [] a.k = b.k -> LogNaN
      [] a.k = "fin" -> IF b.k = "ninf" THEN PosInf ELSE NegInf
      [] OTHER -> a
ExtAdd(a, b) ==
    CASE a.k = "lognan" \/ b.k = "lognan" -> LogNaN
      [] a.k = "fin" /\ b.k = "fin" -> Fin(a.v + b.v)
      [] a.k = "fin" -> b
      [] b.k = "fin" -> a
      [] a.k = b.k -> a
      [] OTHER -> LogNaN
\* a * d for a finite d >= 0
ExtScale(a, d) ==
    CASE a.k = "lognan" -> LogNaN
      [] a.k = "fin" -> Fin(a.v * d)
      [] OTHER -> IF d = 0 THEN LogNaN ELSE a

\* interp1d(x, y, kind='linear') evaluated at x_new, x being 1..Len(y): for
\* one-dimensional real data scipy hands the work to numpy.interp, which
\* returns y at the last node and slope * (x_new - x[j]) + y[j] in the
\* interval [x[j], x[j+1]) otherwise.
interp1d(y, x_new) ==
    IF x_new = Len(y) THEN y[x_new]
    ELSE LET j == x_new
             slope == ExtSub(y[j + 1], y[j])
         IN  ExtAdd(ExtScale(slope, x_new - j), y[j])

LinMul(a, b) ==
    CASE a.k = "nan" \/ b.k = "nan" -> LinNaN
      [] a.k = "zero" \/ b.k = "zero" -> Zero
      [] OTHER -> Pow(a.e + b.e)

Nodes == 1..NNodes
ones_like(grid) == [i \in grid |-> Pow(0)]
\* atmTcleaned[atmTcleaned == 0] = spacing(1)
cleaned(curve) == [i \in DOMAIN curve |-> IF curve[i] = Zero THEN spacing1 ELSE curve[i]]
LogOf(curve) == [i \in DOMAIN curve |-> log(curve[i])]

\* getSystemT(newLambda, bg3fn, windfn, qefn, ...) with newLambda the tabulated
\* wavelengths; `lowtran` says whether the atmosphere model is absent, works,
\* or returns something without .values (AttributeError).
getSystemT(lowtran, atmT, bg3T, windT, qeT) ==
    LET fwl == IF lowtran = "ok" THEN LogOf(cleaned(atmT))
               ELSE LogOf(ones_like(Nodes))
        fbg3 == LogOf(bg3T)
        fwind == LogOf(windT)
        fqe == LogOf(qeT)
        atm == [i \in Nodes |-> exp(interp1d(fwl, i))]
        filter == [i \in Nodes |-> exp(interp1d(fbg3, i))]
        window == [i \in Nodes |-> exp(interp1d(fwind, i))]
        qe == [i \in Nodes |-> exp(interp1d(fqe, i))]
        sysNObg3 == [i \in Nodes |-> LinMul(LinMul(window[i], qe[i]), atm[i])]
    IN  [logs |-> [atm |-> fwl, filter |-> fbg3, window |-> fwind, qe |-> fqe],
         T |-> [filter |-> filter, window |-> window, qe |-> qe, atm |-> atm,
                sysNObg3 |-> sysNObg3,
                sys |-> [i \in Nodes |-> LinMul(sysNObg3[i], filter[i])]]]

\* ---------------------------------------------- SpecT: getSystemT alone
Samples == {Zero} \cup {Pow(e) : e \in 0..MaxExp}
Curves == [Nodes -> Samples]

InitT ==
    /\ pc = "call" /\ ret = <<>>
    /\ args \in [lowtran : {"absent", "ok", "AttributeError"},
                 atm : Curves, filter : Curves, window : Curves, qe : Curves]
    /\ CacheIdle /\ RaceIdle

GetSystemT ==
    /\ pc = "call"
    /\ ret' = <<getSystemT(args.lowtran, args.atm, args.filter, args.window, args.qe)>>
    /\ pc' = "done"
    /\ UNCHANGED <<args, cachevars, racevars>>

NextT == GetSystemT
SpecT == InitT /\ [][NextT]_vars

CurveNames == {"atm", "filter", "window", "qe"}
\* C8: every exact-zero sample of each of the four curves is replaced before
\* its logarithm is taken: no log-domain table holds minus infinity and no
\* value of the composite is zero or not finite.
C8_NoLogSingularity ==
    pc = "done" =>
        /\ \A c \in CurveNames : \A i \in Nodes : ret[1].logs[c][i] # NegInf
        /\ \A c \in DOMAIN ret[1].T : \A i \in Nodes : ret[1].T[c][i].k = "pow"

\* what the code does guarantee: the atmosphere curve alone is cleaned
C8_AtmosphereCleaned ==
    pc = "done" =>
        /\ \A i \in Nodes : ret[1].logs.atm[i] # NegInf
        /\ \A i \in Nodes : ret[1].T.atm[i].k = "pow"
C8_AtmosphereWitness ==
    /\ pc = "done" /\ args.lowtran = "ok" /\ args.atm[1] = Zero
    /\ ret[1].T.atm[1] = spacing1

\* ------------------------------------------------ getApF107 and its cache
MaxVer == 1        \* versions of a remote file the server may hold: 0..MaxVer
MaxCacheDay == 1   \* the calls are spread over the days 0..MaxCacheDay

\* The cache directory is a function from the paths of the files that exist
\* to their contents; a downloaded file holds what the server served.
is_file(fn) == fn \in DOMAIN files
Content(url, v) == [from |-> url, ver |-> v]

\* The table a reader returns for a file (readpast, read45dayfcast and
\* read20yearfcast all return a Dataset over 'time' with Ap and f107): two rows
\* whose values tell the versions apart; the recent-indices rows are a month
\* apart, the forecast rows a day.
TableOf(c) ==
    LET step == IF c.from = URLrecent THEN 30 ELSE 1
    IN  <<Row(0, c.ver, 100 + c.ver), Row(step, c.ver + 1, 101 + c.ver)>>

\* line 37 with the `not` dropped
NeedDownload_nonot(exists, forcedownload) == exists \/ forcedownload
\* if not fn.is_file() or forcedownload:
NeedDownload(exists, forcedownload) == ~exists \/ forcedownload

\* fn.name against the three known file names, in the order of the code
Dispatch(fn) ==
    LET name == PathName(fn)
    IN  IF name = LastSegment(URLrecent) THEN "readpast"
        ELSE IF name = LastSegment(URL45dayfcast) THEN "read45dayfcast"
        ELSE IF name = <<LastSegment(URL20yearfcast)[1]>> \o <<"txt">>
        THEN "read20yearfcast"
        ELSE "FileNotFoundError: could not determine"

\* the optional smoothing and the selection of the requested date
SmoothAndSelect(dat, smoothdays, dt) ==
    IF smoothdays.kind = "int"
    THEN LET periods == rint_div(smoothdays.val, dat[2].time - dat[1].time)
             f107s == moving_average([i \in DOMAIN dat |-> dat[i].f107], periods)
             Aps == moving_average([i \in DOMAIN dat |-> dat[i].Ap], periods)
         IN  IF f107s = ValueError \/ Aps = ValueError THEN ValueError
             ELSE LET r == sel_nearest(dat, dt)
                      i == CHOOSE k \in DOMAIN dat : dat[k] = r
                  IN  [time |-> r.time, Ap |-> r.Ap, f107 |-> r.f107,
                       f107s |-> f107s.vals[i], Aps |-> Aps.vals[i]]
    ELSE sel_nearest(dat, dt)

\* dates asked for: around today and around the end of the 45-day forecast
CacheReqDays == {d \in {tnow - 1, tnow, tnow + FcastDays - 1, tnow + FcastDays} : d >= 0}
CacheReqTimes == {Date(d) : d \in CacheReqDays} \cup {Datetime(tnow + FcastDays, MaxTod)}
SmoothChoices == {None, PyInt(30)}

InitCache ==
    /\ pc = "idle" /\ args = None /\ ret = <<>>
    /\ tnow = 0
    \* setup.py ships RecentIndices.txt with the package; it may be there or not
    /\ files \in {<<>>, (RecentFn :> Content(URLrecent, 0))}
    /\ last = None
    /\ ndown = <<>>
    /\ RaceIdle

\* what urlretrieve meets: the server's current version, or an error raised
\* before the local file is opened
NetOutcomes == {[kind |-> "URLError"]} \cup {[kind |-> "ok", ver |-> v] : v \in 0..MaxVer}

\* One single-date getApF107 call, from todate to the returned row. The
\* network is met only when the call downloads.
GetApF107(time, smoothdays, forcedownload) ==
    /\ pc = "idle"
    /\ \E sel \in {selectApfile(todate(time), tnow)} :
       \E download \in {NeedDownload(is_file(sel.fn), forcedownload)} :
       \E net \in IF download THEN NetOutcomes ELSE {None} :
       \E failed \in {download /\ net.kind = "URLError"} :
       \E after \in {IF download /\ ~failed
                     THEN (sel.fn :> Content(sel.url, net.ver)) @@ files
                     ELSE files} :
       \E reader \in {IF failed \/ sel.fn \notin DOMAIN after THEN "none"
                      ELSE Dispatch(sel.fn)} :
       \E parsed \in {reader \in {"readpast", "read45dayfcast", "read20yearfcast"}} :
       \E out \in {IF parsed
                   THEN SmoothAndSelect(TableOf(after[sel.fn]), smoothdays,
                                        todate(time).day)
                   ELSE None} :
           /\ files' = after
           /\ ndown' = IF download /\ ~failed /\ ~forcedownload
                       THEN (sel.fn :> (IF sel.fn \in DOMAIN ndown
                                        THEN ndown[sel.fn] + 1 ELSE 1)) @@ ndown
                       ELSE ndown
           /\ last' = [kind |-> "call", time |-> time, fn |-> sel.fn, url |-> sel.url,
                       forced |-> forcedownload, urlretrieve |-> download,
                       raised |-> IF failed THEN "URLError"
                                  ELSE IF sel.fn \notin DOMAIN after
                                  THEN "FileNotFoundError: not found"
                                  ELSE IF ~parsed THEN reader
                                  ELSE IF out = ValueError THEN "ValueError"
                                  ELSE "none",
                       reader |-> IF parsed THEN reader ELSE "none"]
           /\ ret' = <<out>>
    /\ pc' = "returned"
    /\ UNCHANGED <<args, tnow, racevars>>

Call ==
    \E time \in CacheReqTimes, smoothdays \in SmoothChoices, forcedownload \in BOOLEAN :
        GetApF107(time, smoothdays, forcedownload)

\* the caller takes the result (or the exception)
Return ==
    /\ pc = "returned"
    /\ pc' = "idle"
    /\ UNCHANGED <<args, ret, cachevars, racevars>>

\* a day passes between calls
Tick ==
    /\ pc = "idle"
    /\ tnow < MaxCacheDay
    /\ tnow' = tnow + 1
    /\ UNCHANGED <<funvars, files, last, ndown, racevars>>

NextCache == Call \/ Return \/ Tick
SpecCache == InitCache /\ [][NextCache]_vars

\* C2: a download happens only if the cache file is absent or forcedownload is
\* set; a call that finds the file and is not forced downloads nothing and
\* leaves the cache as it is, so calls that are not forced download a file at
\* most once.
C2_DownloadOnlyIfAbsentOrForced ==
    /\ [][(pc = "idle" /\ pc' = "returned")
            => /\ last'.urlretrieve => (last'.fn \notin DOMAIN files \/ last'.forced)
               /\ (last'.fn \in DOMAIN files /\ ~last'.forced)
                    => (~last'.urlretrieve /\ files' = files)]_vars
    /\ [](\A fn \in DOMAIN ndown : ndown[fn] <= 1)
C2_Witness ==
    /\ pc = "returned" /\ last.fn = Fcast45Fn /\ ~last.forced /\ ~last.urlretrieve
    /\ Fcast45Fn \in DOMAIN ndown /\ ndown[Fcast45Fn] = 1 /\ tnow = 1
    /\ last.raised = "none"

\* C10: the file name selectApfile returns is one of the three names
\* getApF107 dispatches on, and the reader reached is the one of the source
\* selectApfile chose; the "could not determine" branch is never taken.
C10_SelectorDispatcherAgree ==
    pc = "returned" =>
        /\ last.fn \in {RecentFn, Fcast45Fn, Fcast20Fn}
        /\ last.raised # "FileNotFoundError: could not determine"
        /\ (last.fn \in DOMAIN files /\ last.raised # "URLError")
             => /\ last.reader # "none"
                /\ last.reader = "readpast" <=> last.url = URLrecent
                /\ last.reader = "read45dayfcast" <=> last.url = URL45dayfcast
                /\ last.reader = "read20yearfcast" <=> last.url = URL20yearfcast
C10_Witness ==
    pc = "returned" /\ last.reader = "read20yearfcast" /\ last.fn = Fcast20Fn
    /\ last.url = URL20yearfcast /\ last.time.kind = "datetime"

\* ------------------------------- SpecRace: two invocations, one cache file
NChunks == 2       \* blocks urlretrieve writes to complete the file

\* Two single-date getApF107 calls for the same source run interleaved. The
\* cache file is the sequence of its blocks; urlretrieve opens the target path
\* for writing (creating or truncating it), then writes the blocks one by one
\* at its own file offset and returns after the last one.
Procs == {"a", "b"}
NoDisk == [exists |-> FALSE, chunks |-> <<>>]
FullDisk == [exists |-> TRUE, chunks |-> [i \in 1..NChunks |-> "data"]]
Complete(d) == d.exists /\ d = FullDisk

\* urlretrieve returning after the first block
DownloadDone_early(off) == off >= 1
\* urlretrieve returns once every block is written
DownloadDone(off) == off = NChunks

\* writing one block at offset off (0-based); a write past the end of a file
\* another writer truncated leaves a hole before it
WriteAt(chunks, off) ==
    [i \in 1..Max2(Len(chunks), off + 1) |->
        IF i = off + 1 THEN "data"
        ELSE IF i <= Len(chunks) THEN chunks[i] ELSE "hole"]

InitRace ==
    /\ pc = "race" /\ args = None /\ ret = <<>>
    /\ CacheIdle
    /\ disk \in {NoDisk, FullDisk}
    /\ \E force \in [Procs -> BOOLEAN] :
         proc = [p \in Procs |->
                   [pc |-> "start", forcedownload |-> force[p], off |-> 0,
                    dl |-> "none", sawPartial |-> FALSE, otherOpen |-> FALSE]]

\* line 37: the existence check
Check(p) ==
    /\ proc[p].pc = "start"
    /\ proc' = [proc EXCEPT ![p].pc =
                  IF NeedDownload(disk.exists, proc[p].forcedownload)
                  THEN "urlopen" ELSE "isfile"]
    /\ UNCHANGED <<disk, funvars, cachevars>>

\* line 39: urlretrieve opens the local file once the URL is open
OpenFile(p) ==
    /\ proc[p].pc = "urlopen"
    /\ disk' = [exists |-> TRUE, chunks |-> <<>>]
    /\ proc' = [proc EXCEPT ![p].pc = "write", ![p].off = 0, ![p].dl = "open"]
    /\ UNCHANGED <<funvars, cachevars>>

\* line 39: urlretrieve copies one block
WriteChunk(p) ==
    /\ proc[p].pc = "write"
    /\ proc[p].off < NChunks
    /\ disk' = [disk EXCEPT !.chunks = WriteAt(disk.chunks, proc[p].off)]
    /\ proc' = [proc EXCEPT
                  ![p].off = proc[p].off + 1,
                  ![p].pc = IF DownloadDone(proc[p].off + 1) THEN "isfile" ELSE "write",
                  ![p].dl = IF DownloadDone(proc[p].off + 1) THEN "done" ELSE "open"]
    /\ UNCHANGED <<funvars, cachevars>>

\* line 39: the transfer fails; the exception leaves getApF107
DownloadFails(p) ==
    /\ proc[p].pc \in {"urlopen", "write"}
    /\ proc' = [proc EXCEPT ![p].pc = "raised"]
    /\ UNCHANGED <<disk, funvars, cachevars>>

\* lines 42-43
IsFile(p) ==
    /\ proc[p].pc = "isfile"
    /\ proc' = [proc EXCEPT ![p].pc = IF disk.exists THEN "parse" ELSE "raised"]
    /\ UNCHANGED <<disk, funvars, cachevars>>

\* lines 45-50: the reader reads the file as it is now
Parse(p) ==
    /\ proc[p].pc = "parse"
    /\ proc' = [proc EXCEPT
                  ![p].pc = "parsed",
                  ![p].sawPartial = ~Complete(disk),
                  ![p].otherOpen = \E q \in Procs \ {p} : proc[q].dl = "open"]
    /\ UNCHANGED <<disk, funvars, cachevars>>

NextRace ==
    \E p \in Procs :
        \/ Check(p) \/ OpenFile(p) \/ WriteChunk(p) \/ DownloadFails(p)
        \/ IsFile(p) \/ Parse(p)
SpecRace == InitRace /\ [][NextRace]_vars

\* C3 as stated: no invocation parses a cache file that is only partially
\* written.
C3_NoPartialParse ==
    \A p \in Procs : proc[p].pc = "parsed" => ~proc[p].sawPartial

\* C3 amended: starting from a cache file that is absent or complete, an
\* invocation parses a partially written file only when the other invocation
\* has opened the file for its download and has not completed it; it never
\* parses a file left partial by its own download.
C3_PartialOnlyWhileOtherDownloads ==
    \A p \in Procs :
        (proc[p].pc = "parsed" /\ proc[p].sawPartial) => proc[p].otherOpen
C3_Witness ==
    /\ \A p \in Procs : ~proc[p].forcedownload
    /\ proc["a"].pc = "parsed" /\ proc["a"].sawPartial /\ proc["a"].dl = "none"
    /\ proc["b"].pc = "write"
====
